---------------------------- MODULE Spec2Model ----------------------------
(***************************************************************************)
(* EVrouter: the range-constrained charging-stop pipeline of              *)
(* RouteService.calculate_route (backend/app/services/route_service.py)   *)
(* and the polyline codec (backend/app/utils/polyline.py).                *)
(*                                                                         *)
(* Numbers.  Every Python float of the pipeline (distance, duration,      *)
(* vehicle_range, charging_time, charge_to_level) is modelled as an exact  *)
(* fixed-point number: the integer stored in the model is the value times  *)
(* Scale.  With whole-kilometre distances every quotient the code forms    *)
(* (D/300*100, level/20*15) is a whole number of 1/Scale units, so the     *)
(* model computes them without rounding.                                   *)
(*                                                                         *)
(* Optional fields (None or a value) are sequences of length 0 or 1.       *)
(* Python lists are 0-based, the sequences here are 1-based: position p    *)
(* of a sequence is index p-1 of the list.                                 *)
(***************************************************************************)
EXTENDS Integers, Sequences, FiniteSets, TLC

VARIABLES
    pc,                 \* position inside calculate_route
    vehicle_range,      \* argument vehicle_range
    basic_route,        \* result of _get_basic_route
    analyzed_segments,  \* _analyze_range: the list being built
    an_i,               \* _analyze_range: position of the next segment
    an_remaining,       \* _analyze_range: remaining_range
    final_route,        \* _insert_charging_stops: the list being built, then
                        \* the same list object updated in place by
                        \* _calculate_charging_requirements
    ins_i,              \* _insert_charging_stops: position of the next segment
    remaining_range,    \* _insert_charging_stops: remaining_range
    calc_i,             \* _calculate_charging_requirements: position i
    response,           \* the RouteResponse returned (None until then)
    cpc,                \* position inside the codec round trip
    coordinates,        \* encode_coordinates: argument
    enc_i,              \* encode_coordinates: position of the next point
    prev_lat,           \* encode_coordinates: prev_lat
    prev_lng,           \* encode_coordinates: prev_lng
    result,             \* encode_coordinates: the list of encoded values
    polyline,           \* the encoded string handed to decode_polyline
    dec_i,              \* decode_polyline: i (0-based, as in the code)
    lat,                \* decode_polyline: lat
    lng,                \* decode_polyline: lng
    decoded             \* decode_polyline: coordinates

routeVars == <<pc, vehicle_range, basic_route, analyzed_segments, an_i,
               an_remaining, final_route, ins_i, remaining_range, calc_i,
               response>>
codecVars == <<cpc, coordinates, enc_i, prev_lat, prev_lng, result, polyline,
               dec_i, lat, lng, decoded>>
vars == <<routeVars, codecVars>>

---------------------------------------------------------------------------
(* Bounds and input alphabets *)

\* longest leg sequence the upstream route computation returns
MaxLegs == 3

\* fixed-point denominator: 3 for D/300*100, 4 for level/20*15
Scale == 3 * 4

\* a float with a whole value v
F(v) == v * Scale

\* <<distance in km, duration in minutes>> of the legs OSRM may return
LegKinds == { <<0, 0>>, <<50, 40>>, <<100, 75>>, <<150, 110>>, <<250, 180>>,
              <<300, 200>>, <<500, 330>> }

\* vehicle ranges a request may carry (RouteRequest.vehicle_range is any float)
Ranges == { 0, 200, 300 }

None == << >>
Some(v) == << v >>

Min(a, b) == IF a <= b THEN a ELSE b

---------------------------------------------------------------------------
(* Data model *)

RouteSegmentFields ==
    { "start_location", "end_location", "distance", "duration",
      "is_charging_stop", "charging_time", "charge_to_level", "polyline" }

\* RouteSegment(**d): the declared fields are kept, any other key is ignored
RouteSegment(d) == [ f \in RouteSegmentFields |-> d[f] ]

\* the k-th location of [start] + waypoints + [destination]
Place(k) == [ latitude |-> k, longitude |-> 0 - k,
              name |-> Some("place"), address |-> None ]

\* one leg of _process_osrm_response
OsrmLeg(k, kind) ==
    [ start_location   |-> Place(k),
      end_location     |-> Place(k + 1),
      distance         |-> F(kind[1]),
      duration         |-> F(kind[2]),
      is_charging_stop |-> FALSE,
      charging_time    |-> None,
      charge_to_level  |-> None,
      polyline         |-> Some("geometry") ]

\* the leg sequences get_route may return: [] on failure, else one leg per hop
LegInputs == UNION { [ 1..n -> LegKinds ] : n \in 0..MaxLegs }

ProcessOsrmResponse(kinds) == [ k \in 1..Len(kinds) |-> OsrmLeg(k, kinds[k]) ]

Abs(x) == IF x < 0 THEN 0 - x ELSE x

\* ((lat_diff ** 2) + (lon_diff ** 2) ** 0.5) * 111; the coordinates are whole
\* degrees, so the square root of lon_diff ** 2 is lon_diff exactly
CalculateStraightDistance(point1, point2) ==
    LET lat_diff == Abs(point1.latitude - point2.latitude)
        lon_diff == Abs(point1.longitude - point2.longitude)
    IN  F((lat_diff * lat_diff + lon_diff) * 111)

\* one segment of _create_simplified_route; duration = (distance / 60) * 60,
\* which for these distances is the distance again (222.0 for 222.0 km)
SimplifiedLeg(k) ==
    LET distance == CalculateStraightDistance(Place(k), Place(k + 1))
    IN  [ start_location   |-> Place(k),
          end_location     |-> Place(k + 1),
          distance         |-> distance,
          duration         |-> (distance * 60) \div 60,
          is_charging_stop |-> FALSE,
          charging_time    |-> None,
          charge_to_level  |-> None,
          polyline         |-> None ]

\* _create_simplified_route for n + 1 points: one direct segment per hop
CreateSimplifiedRoute(n) == [ k \in 1..n |-> SimplifiedLeg(k) ]

\* what _get_basic_route may return: the legs of get_route, or, when
\* db.get_session() raises, the simplified route between the request's points
\* (start and destination at least, so one hop or more)
GetBasicRoute ==
    { ProcessOsrmResponse(kinds) : kinds \in LegInputs }
        \cup { CreateSimplifiedRoute(n) : n \in 1..MaxLegs }

RECURSIVE SumField(_, _)
SumField(segs, f) ==
    IF segs = << >> THEN 0
    ELSE segs[1][f] + SumField(Tail(segs), f)

---------------------------------------------------------------------------
(* _analyze_range *)

\* segment.distance <= remaining_range
RangeSufficient(distance, remaining) == distance <= remaining

\* segment.dict() with the key range_sufficient added
SegmentCopy(segment, range_sufficient) ==
    [ f \in RouteSegmentFields \cup { "range_sufficient" } |->
        IF f = "range_sufficient" THEN range_sufficient ELSE segment[f] ]

---------------------------------------------------------------------------
(* _insert_charging_stops *)

\* a slip: the comparison made strict
FitsStrict(distance, remaining) == distance < remaining

\* segment.distance <= remaining_range: the leg is driven without charging
Fits(distance, remaining) == distance <= remaining

FindNearestChargingStation(location) ==
    [ latitude  |-> location.latitude,
      longitude |-> location.longitude,
      name      |-> Some("Charging Station near " \o
                         (IF location.name = None \/ location.name = Some("")
                          THEN "location"
                          ELSE location.name[1])),
      address   |-> Some("123 Charge St") ]

\* a slip: the placeholder built as a copy of the segment's distance
ChargingSegmentKeepsDistance(segment) ==
    [ start_location   |-> segment.start_location,
      end_location     |-> FindNearestChargingStation(segment.start_location),
      distance         |-> segment.distance,
      duration         |-> 0,
      is_charging_stop |-> TRUE,
      charging_time    |-> None,
      charge_to_level  |-> None,
      polyline         |-> None ]

\* a slip: the placeholder anchored at the end of the segment
ChargingSegmentAtEnd(segment) ==
    [ start_location   |-> segment.end_location,
      end_location     |-> FindNearestChargingStation(segment.end_location),
      distance         |-> 0,
      duration         |-> 0,
      is_charging_stop |-> TRUE,
      charging_time    |-> None,
      charge_to_level  |-> None,
      polyline         |-> None ]

\* the placeholder appended before a segment that does not fit
ChargingSegment(segment) ==
    [ start_location   |-> segment.start_location,
      end_location     |-> FindNearestChargingStation(segment.start_location),
      distance         |-> 0,
      duration         |-> 0,
      is_charging_stop |-> TRUE,
      charging_time    |-> None,
      charge_to_level  |-> None,
      polyline         |-> None ]

\* remaining_range -= segment.distance
RemainingAfterDrive(remaining, distance) == remaining - distance

\* a slip: the segment driven after the stop is not charged to the range
RemainingAfterChargeFull(range, distance) == range

\* remaining_range = vehicle_range - segment.distance
RemainingAfterCharge(range, distance) == range - distance

\* final_route.append(segment)
AppendDriven(route, segment) == Append(route, segment)

\* a slip: the segment is not appended again after its charging stop
AppendChargedOnly(route, segment) == Append(route, ChargingSegment(segment))

\* final_route.append(charging_segment); final_route.append(segment)
AppendCharged(route, segment) ==
    Append(Append(route, ChargingSegment(segment)), segment)

---------------------------------------------------------------------------
(* _calculate_charging_requirements *)

\* a slip: the level is not clamped
ChargeToLevelUnclamped(distance) == ((distance * 100) \div 300) + F(20)

\* min(100, (next_segment.distance / 300) * 100 + 20)
ChargeToLevel(distance) ==
    Min(F(100), ((distance * 100) \div 300) + F(20))

\* (charge_to_level / 20) * 15
ChargingTime(charge_to_level) == (charge_to_level * 15) \div 20

\* a slip: charge_to_level is not written back
UpdatedSegmentNoLevel(segment, next_segment) ==
    RouteSegment(
        [ segment EXCEPT
            !.charging_time   = Some(ChargingTime(ChargeToLevel(next_segment.distance))),
            !.duration        = ChargingTime(ChargeToLevel(next_segment.distance)) ])

\* a slip: the dwell time is not written to duration
UpdatedSegmentNoDuration(segment, next_segment) ==
    RouteSegment(
        [ segment EXCEPT
            !.charging_time   = Some(ChargingTime(ChargeToLevel(next_segment.distance))),
            !.charge_to_level = Some(ChargeToLevel(next_segment.distance)) ])

\* segment.dict() with the three keys updated, then RouteSegment(**...)
UpdatedSegment(segment, next_segment) ==
    RouteSegment(
        [ segment EXCEPT
            !.charging_time   = Some(ChargingTime(ChargeToLevel(next_segment.distance))),
            !.charge_to_level = Some(ChargeToLevel(next_segment.distance)),
            !.duration        = ChargingTime(ChargeToLevel(next_segment.distance)) ])

---------------------------------------------------------------------------
(* _extract_charging_stops *)

IsCompletedStop(segment) ==
    /\ segment.is_charging_stop
    /\ segment.charging_time # None
    /\ segment.charge_to_level # None

\* a slip: the summary carries the stop's start instead of the station
ChargingStopAtStart(segment) ==
    [ location        |-> segment.start_location,
      charging_time   |-> segment.charging_time[1],
      charge_to_level |-> segment.charge_to_level[1] ]

ChargingStop(segment) ==
    [ location        |-> segment.end_location,
      charging_time   |-> segment.charging_time[1],
      charge_to_level |-> segment.charge_to_level[1] ]

RECURSIVE ExtractChargingStops(_)
ExtractChargingStops(segs) ==
    IF segs = << >> THEN << >>
    ELSE (IF IsCompletedStop(segs[1]) THEN << ChargingStop(segs[1]) >> ELSE << >>)
         \o ExtractChargingStops(Tail(segs))

---------------------------------------------------------------------------
(* calculate_route as a state machine *)

CodecIdle ==
    /\ cpc = "off"
    /\ coordinates = << >>
    /\ enc_i = 1
    /\ prev_lat = 0
    /\ prev_lng = 0
    /\ result = << >>
    /\ polyline = << >>
    /\ dec_i = 0
    /\ lat = 0
    /\ lng = 0
    /\ decoded = << >>

RouteIdle(p) ==
    /\ pc = p
    /\ vehicle_range = 0
    /\ basic_route = << >>
    /\ analyzed_segments = << >>
    /\ an_i = 1
    /\ an_remaining = 0
    /\ final_route = << >>
    /\ ins_i = 1
    /\ remaining_range = 0
    /\ calc_i = 1
    /\ response = None

Init == RouteIdle("idle") /\ CodecIdle

\* calculate_route is called; _get_basic_route returns the legs of get_route
\* or, after an exception, of _create_simplified_route
CalculateRoute ==
    /\ pc = "idle"
    /\ \E range \in Ranges, route \in GetBasicRoute :
         /\ vehicle_range' = F(range)
         /\ basic_route' = route
         /\ an_remaining' = F(range)
    /\ analyzed_segments' = << >>
    /\ an_i' = 1
    /\ pc' = "analyze"
    /\ UNCHANGED <<final_route, ins_i, remaining_range, calc_i, response>>
    /\ UNCHANGED codecVars

\* one iteration of the loop of _analyze_range
AnalyzeStep ==
    /\ pc = "analyze"
    /\ an_i <= Len(basic_route)
    /\ LET segment == basic_route[an_i]
           range_sufficient == RangeSufficient(segment.distance, an_remaining)
       IN  /\ analyzed_segments' =
                 Append(analyzed_segments,
                        RouteSegment(SegmentCopy(segment, range_sufficient)))
           /\ an_remaining' = IF range_sufficient
                              THEN an_remaining - segment.distance
                              ELSE an_remaining
    /\ an_i' = an_i + 1
    /\ UNCHANGED <<pc, vehicle_range, basic_route, final_route, ins_i,
                   remaining_range, calc_i, response>>
    /\ UNCHANGED codecVars

\* _analyze_range returns; _insert_charging_stops starts on its result
AnalyzeReturn ==
    /\ pc = "analyze"
    /\ an_i > Len(basic_route)
    /\ pc' = "insert"
    /\ final_route' = << >>
    /\ ins_i' = 1
    /\ remaining_range' = vehicle_range
    /\ UNCHANGED <<vehicle_range, basic_route, analyzed_segments, an_i,
                   an_remaining, calc_i, response>>
    /\ UNCHANGED codecVars

\* loop of _insert_charging_stops, the segment fits
InsertDrive ==
    /\ pc = "insert"
    /\ ins_i <= Len(analyzed_segments)
    /\ LET segment == analyzed_segments[ins_i]
       IN  /\ Fits(segment.distance, remaining_range)
           /\ final_route' = AppendDriven(final_route, segment)
           /\ remaining_range' = RemainingAfterDrive(remaining_range, segment.distance)
    /\ ins_i' = ins_i + 1
    /\ UNCHANGED <<pc, vehicle_range, basic_route, analyzed_segments, an_i,
                   an_remaining, calc_i, response>>
    /\ UNCHANGED codecVars

\* loop of _insert_charging_stops, the segment does not fit
InsertCharge ==
    /\ pc = "insert"
    /\ ins_i <= Len(analyzed_segments)
    /\ LET segment == analyzed_segments[ins_i]
       IN  /\ ~ Fits(segment.distance, remaining_range)
           /\ final_route' = AppendCharged(final_route, segment)
           /\ remaining_range' = RemainingAfterCharge(vehicle_range, segment.distance)
    /\ ins_i' = ins_i + 1
    /\ UNCHANGED <<pc, vehicle_range, basic_route, analyzed_segments, an_i,
                   an_remaining, calc_i, response>>
    /\ UNCHANGED codecVars

\* _insert_charging_stops returns; _calculate_charging_requirements starts
InsertReturn ==
    /\ pc = "insert"
    /\ ins_i > Len(analyzed_segments)
    /\ pc' = "calc"
    /\ calc_i' = 1
    /\ UNCHANGED <<vehicle_range, basic_route, analyzed_segments, an_i,
                   an_remaining, final_route, ins_i, remaining_range, response>>
    /\ UNCHANGED codecVars

\* one iteration of the loop of _calculate_charging_requirements
CalcStep ==
    /\ pc = "calc"
    /\ calc_i <= Len(final_route)
    /\ LET segment == final_route[calc_i]
       IN  final_route' =
             IF segment.is_charging_stop /\ calc_i + 1 <= Len(final_route)
             THEN [ final_route EXCEPT
                      ![calc_i] = UpdatedSegment(segment, final_route[calc_i + 1]) ]
             ELSE final_route
    /\ calc_i' = calc_i + 1
    /\ UNCHANGED <<pc, vehicle_range, basic_route, analyzed_segments, an_i,
                   an_remaining, ins_i, remaining_range, response>>
    /\ UNCHANGED codecVars

\* _calculate_charging_requirements returns; the RouteResponse is built
Respond ==
    /\ pc = "calc"
    /\ calc_i > Len(final_route)
    /\ pc' = "done"
    /\ response' = Some([ route_segments |-> final_route,
                          total_distance |-> SumField(final_route, "distance"),
                          total_duration |-> SumField(final_route, "duration"),
                          charging_stops |-> ExtractChargingStops(final_route) ])
    /\ UNCHANGED <<vehicle_range, basic_route, analyzed_segments, an_i,
                   an_remaining, final_route, ins_i, remaining_range, calc_i>>
    /\ UNCHANGED codecVars

Next ==
    \/ CalculateRoute
    \/ AnalyzeStep
    \/ AnalyzeReturn
    \/ InsertDrive
    \/ InsertCharge
    \/ InsertReturn
    \/ CalcStep
    \/ Respond

Spec == Init /\ [][Next]_vars

---------------------------------------------------------------------------
(* Polyline codec: backend/app/utils/polyline.py                          *)
(*                                                                         *)
(* A string is the sequence of its character codes (ord).  An input        *)
(* coordinate is a float with the exact value c / CoordDen degrees, held   *)
(* as the integer c; with CoordDen a power of two the product lat * 1e5 is *)
(* exact in double precision, so round() sees the value modelled here.  A  *)
(* decoded coordinate lat / 1e5 is held as its numerator lat.              *)

\* most points of a coordinate sequence
MaxPoints == 2

CoordDen == 2 ^ 17

\* input coordinates, in units of 1/CoordDen degree: 2048 and 6144 are the
\* ties 1562.5 and 4687.5 of the quantization, -3 and 1 give -2 and 1
CoordValues == { 0 - 2048, 0 - 3, 0, 1, 6144 }

CoordInputs ==
    UNION { [ 1..n -> CoordValues \X CoordValues ] : n \in 0..MaxPoints }

\* round(p / q) of Python 3 for q > 0: to the nearest integer, ties to even
RoundHalfEven(p, q) ==
    LET fl == p \div q
        r  == p % q
    IN  IF 2 * r < q THEN fl
        ELSE IF 2 * r > q THEN fl + 1
        ELSE IF fl % 2 = 0 THEN fl ELSE fl + 1

\* int(round(lat * 1e5))
Quantize(c) == RoundHalfEven(c * 100000, CoordDen)

\* a slip: the inversion of negative values is left out
ZigZagNoInvert(value) == IF value < 0 THEN 0 - (2 * value) ELSE 2 * value

\* ~(value << 1) if value < 0 else (value << 1)
ZigZag(value) == IF value < 0 THEN 0 - (2 * value) - 1 ELSE 2 * value

\* a slip: the continuation bit 0x20 is not set on the leading characters
RECURSIVE EncodeChunksNoContinuation(_)
EncodeChunksNoContinuation(value) ==
    IF value >= 32
    THEN << (value % 32) + 63 >> \o EncodeChunksNoContinuation(value \div 32)
    ELSE << value + 63 >>

\* the while loop of _encode_value and the final character
RECURSIVE EncodeChunks(_)
EncodeChunks(value) ==
    IF value >= 32
    THEN << (32 + (value % 32)) + 63 >> \o EncodeChunks(value \div 32)
    ELSE << value + 63 >>

EncodeValue(value) == EncodeChunks(ZigZag(value))

\* ''.join(result)
RECURSIVE Join(_)
Join(strings) ==
    IF strings = << >> THEN << >> ELSE strings[1] \o Join(Tail(strings))

\* result >> 1, inverted when the low bit is set
UnZigZag(r) == IF r % 2 = 1 THEN 0 - (r \div 2) - 1 ELSE r \div 2

\* the while True loop of _decode_value; index is 0-based as in the code.
\* Reading polyline[index] with index >= len(polyline) raises IndexError.
\* a slip: the end of the string is taken as the end of the group
RECURSIVE DecodeLoopLenient(_, _, _, _)
DecodeLoopLenient(str, index, r, shift) ==
    IF index >= Len(str)
    THEN [ ok |-> TRUE, value |-> IF r % 2 = 1 THEN 0 - (r \div 2) - 1 ELSE r \div 2,
           index |-> index ]
    ELSE LET b  == str[index + 1] - 63
             r2 == r + (b % 32) * (2 ^ shift)
         IN  IF b < 32
             THEN [ ok |-> TRUE,
                    value |-> IF r2 % 2 = 1 THEN 0 - (r2 \div 2) - 1 ELSE r2 \div 2,
                    index |-> index + 1 ]
             ELSE DecodeLoopLenient(str, index + 1, r2, shift + 5)

RECURSIVE DecodeLoop(_, _, _, _)
DecodeLoop(str, index, r, shift) ==
    IF index >= Len(str)
    THEN [ ok |-> FALSE, value |-> 0, index |-> index ]
    ELSE LET b  == str[index + 1] - 63
             r2 == r + (b % 32) * (2 ^ shift)
         IN  IF b < 32
             THEN [ ok |-> TRUE, value |-> UnZigZag(r2), index |-> index + 1 ]
             ELSE DecodeLoop(str, index + 1, r2, shift + 5)

DecodeValue(str, index) == DecodeLoop(str, index, 0, 0)

CodecInit ==
    /\ RouteIdle("off")
    /\ cpc = "idle"
    /\ coordinates = << >>
    /\ enc_i = 1
    /\ prev_lat = 0
    /\ prev_lng = 0
    /\ result = << >>
    /\ polyline = << >>
    /\ dec_i = 0
    /\ lat = 0
    /\ lng = 0
    /\ decoded = << >>

\* encode_coordinates is called
EncodeCoordinates ==
    /\ cpc = "idle"
    /\ \E coords \in CoordInputs : coordinates' = coords
    /\ result' = << >>
    /\ prev_lat' = 0
    /\ prev_lng' = 0
    /\ enc_i' = 1
    /\ cpc' = "encode"
    /\ UNCHANGED <<polyline, dec_i, lat, lng, decoded>>
    /\ UNCHANGED routeVars

\* one iteration of the loop of encode_coordinates
EncodePoint ==
    /\ cpc = "encode"
    /\ enc_i <= Len(coordinates)
    /\ LET lat_int == Quantize(coordinates[enc_i][1])
           lng_int == Quantize(coordinates[enc_i][2])
           d_lat   == lat_int - prev_lat
           d_lng   == lng_int - prev_lng
       IN  /\ prev_lat' = lat_int
           /\ prev_lng' = lng_int
           /\ result' = Append(Append(result, EncodeValue(d_lat)),
                               EncodeValue(d_lng))
    /\ enc_i' = enc_i + 1
    /\ UNCHANGED <<cpc, coordinates, polyline, dec_i, lat, lng, decoded>>
    /\ UNCHANGED routeVars

\* encode_coordinates returns the joined string; decode_polyline is called
\* on it
EncodeReturn ==
    /\ cpc = "encode"
    /\ enc_i > Len(coordinates)
    /\ polyline' = Join(result)
    /\ dec_i' = 0
    /\ lat' = 0
    /\ lng' = 0
    /\ decoded' = << >>
    /\ cpc' = "decode"
    /\ UNCHANGED <<coordinates, enc_i, prev_lat, prev_lng, result>>
    /\ UNCHANGED routeVars

\* one iteration of the loop of decode_polyline; an IndexError of
\* _decode_value ends the call without a result
DecodePoint ==
    /\ cpc = "decode"
    /\ dec_i < Len(polyline)
    /\ LET a == DecodeValue(polyline, dec_i)
           b == DecodeValue(polyline, a.index)
       IN  IF a.ok /\ b.ok
           THEN /\ lat' = lat + a.value
                /\ lng' = lng + b.value
                /\ dec_i' = b.index
                /\ decoded' = Append(decoded, << lat + a.value, lng + b.value >>)
                /\ cpc' = cpc
           ELSE /\ cpc' = "raised"
                /\ UNCHANGED <<lat, lng, dec_i, decoded>>
    /\ UNCHANGED <<coordinates, enc_i, prev_lat, prev_lng, result, polyline>>
    /\ UNCHANGED routeVars

\* decode_polyline returns coordinates
DecodeReturn ==
    /\ cpc = "decode"
    /\ dec_i >= Len(polyline)
    /\ cpc' = "decoded"
    /\ UNCHANGED <<coordinates, enc_i, prev_lat, prev_lng, result, polyline,
                   dec_i, lat, lng, decoded>>
    /\ UNCHANGED routeVars

CodecNext ==
    \/ EncodeCoordinates
    \/ EncodePoint
    \/ EncodeReturn
    \/ DecodePoint
    \/ DecodeReturn

CodecSpec == CodecInit /\ [][CodecNext]_vars

\* C10: decoding the encoding of a coordinate sequence returns a sequence of
\* the same length whose k-th point is the k-th input point quantized to
\* 1e-5 degrees, hence within 1e-5 degrees (indeed half of that) of the input;
\* the empty sequence encodes to the empty string, which decodes to the empty
\* sequence.
C10_RoundTrip ==
    /\ cpc # "raised"
    /\ cpc = "decoded" =>
         /\ Len(decoded) = Len(coordinates)
         /\ \A k \in DOMAIN coordinates : \A j \in 1..2 :
              /\ decoded[k][j] = Quantize(coordinates[k][j])
              /\ 2 * (decoded[k][j] * CoordDen - coordinates[k][j] * 100000)
                    <= CoordDen
              /\ 2 * (coordinates[k][j] * 100000 - decoded[k][j] * CoordDen)
                    <= CoordDen
         /\ coordinates = << >> => (polyline = << >> /\ decoded = << >>)

\* a round trip with a negative coordinate, a quantization tie and a repeated
\* point (both deltas zero)
C10_Witness ==
    /\ cpc = "decoded"
    /\ Len(coordinates) = 2
    /\ coordinates[1] = << 0 - 2048, 6144 >>
    /\ coordinates[2] = coordinates[1]
    /\ decoded = << << 0 - 1562, 4688 >>, << 0 - 1562, 4688 >> >>
    /\ polyline = << 114, 96, 66, 95, 100, 72, 63, 63 >>

\* the number a group spells: its 5-bit digits, least significant first
RECURSIVE GroupValue(_)
GroupValue(str) ==
    IF str = << >> THEN 0
    ELSE ((str[1] - 63) % 32) + 32 * GroupValue(Tail(str))

\* the quantized value of coordinate j of point k, 0 before the first point
QuantizedAt(k, j) == IF k = 0 THEN 0 ELSE Quantize(coordinates[k][j])

\* the non-negative number that stands for a signed delta
NonNegativeOf(d) == IF d >= 0 THEN 2 * d ELSE (0 - 2 * d) - 1

\* C17: every string _encode_value has emitted is non-empty, all its
\* character codes lie in 63..126, every character but the last has the
\* continuation bit (code - 63 >= 32) and the last has not; read as 5-bit
\* little-endian digits it spells the zig-zag of its delta; and
\* encode_coordinates has emitted, per point, the latitude-delta group and then
\* the longitude-delta group.
C17_GroupShape ==
    /\ Len(result) = 2 * (enc_i - 1)
    /\ \A g \in DOMAIN result :
         /\ Len(result[g]) >= 1
         /\ \A j \in DOMAIN result[g] :
              /\ result[g][j] >= 63
              /\ result[g][j] <= 126
              /\ j < Len(result[g]) => result[g][j] - 63 >= 32
              /\ j = Len(result[g]) => result[g][j] - 63 < 32
    /\ \A k \in 1..(enc_i - 1) : \A j \in 1..2 :
         GroupValue(result[2 * (k - 1) + j])
            = NonNegativeOf(QuantizedAt(k, j) - QuantizedAt(k - 1, j))

\* after two points: a three-character group of a negative delta, one-character
\* groups of the deltas 0, 0 and 1
C17_Witness ==
    /\ cpc = "encode"
    /\ enc_i = 3
    /\ Len(coordinates) = 2
    /\ coordinates[1] = << 0 - 2048, 0 >>
    /\ coordinates[2] = << 0 - 2048, 1 >>
    /\ result = << << 114, 96, 66 >>, << 63 >>, << 63 >>, << 65 >> >>

---------------------------------------------------------------------------
(* decode_polyline called on an arbitrary string *)

\* longest string handed to decode_polyline
MaxChars == 4

\* '?' and '@' end a group (0 and 1), '_', '`' and '~' continue it (32, 33, 63)
PolylineChars == { 63, 64, 95, 96, 126 }

PolylineInputs == UNION { [ 1..n -> PolylineChars ] : n \in 0..MaxChars }

\* decode_polyline(polyline) has been called and stands before its loop
DecodeInit ==
    /\ RouteIdle("off")
    /\ cpc = "decode"
    /\ coordinates = << >>
    /\ enc_i = 1
    /\ prev_lat = 0
    /\ prev_lng = 0
    /\ result = << >>
    /\ polyline \in PolylineInputs
    /\ dec_i = 0
    /\ lat = 0
    /\ lng = 0
    /\ decoded = << >>

DecodeNext ==
    \/ DecodePoint
    \/ DecodeReturn

DecodeSpec == DecodeInit /\ [][DecodeNext]_vars

\* the characters that end a 5-bit group sequence (continuation bit clear)
Terminators(str) == { j \in DOMAIN str : str[j] - 63 < 32 }

\* the last group has its continuation bit set, or the string holds an odd
\* number of values (a latitude without its longitude)
Malformed(str) ==
    /\ str # << >>
    /\ \/ str[Len(str)] - 63 >= 32
       \/ Cardinality(Terminators(str)) % 2 = 1

\* C11: decode_polyline never returns a coordinate list for a malformed
\* string: as long as it runs it stands inside the string with a point still
\* to decode, so the call can only end by raising (IndexError); the position
\* never passes the end of the string.
C11_MalformedRaises ==
    /\ dec_i <= Len(polyline)
    /\ Malformed(polyline) =>
         /\ cpc \in { "decode", "raised" }
         /\ cpc = "decode" => dec_i < Len(polyline)

\* "???": one complete point, then a latitude with no longitude
C11_Witness ==
    /\ cpc = "raised"
    /\ polyline = << 63, 63, 63 >>
    /\ Malformed(polyline)
    /\ decoded = << << 0, 0 >> >>

---------------------------------------------------------------------------
(* Properties of the pipeline *)

\* the legs _insert_charging_stops has visited so far
Visited == SubSeq(analyzed_segments, 1, ins_i - 1)

IsStopFlags(segs) == [ p \in 1..Len(segs) |-> segs[p].is_charging_stop ]

\* The placement the rule prescribes, as the sequence of is_charging_stop
\* flags of the output: a leg that fits the running remaining range
\* contributes <<FALSE>>, a leg that exceeds it <<TRUE, FALSE>>.
RECURSIVE StopPattern(_, _, _)
StopPattern(legs, range, remaining) ==
    IF legs = << >> THEN << >>
    ELSE LET d == legs[1].distance
         IN  IF d <= remaining
             THEN << FALSE >> \o StopPattern(Tail(legs), range, remaining - d)
             ELSE << TRUE, FALSE >> \o StopPattern(Tail(legs), range, range - d)

\* position in the output of the k-th visited leg
RECURSIVE NthDriven(_, _)
NthDriven(flags, k) ==
    IF flags[1] THEN 1 + NthDriven(Tail(flags), k)
    ELSE IF k = 1 THEN 1
    ELSE 1 + NthDriven(Tail(flags), k - 1)

\* C1: at every point of _insert_charging_stops and after it, the output holds
\* no charging stop before a visited leg whose distance was <= the remaining
\* range when it was visited, and exactly one, immediately before it, when the
\* distance exceeded the remaining range.
C1_StopPlacement ==
    LET flags == StopPattern(Visited, vehicle_range, vehicle_range)
    IN  /\ IsStopFlags(final_route) = flags
        /\ \A k \in 1..Len(Visited) :
             final_route[NthDriven(flags, k)].start_location
                 = Visited[k].start_location

\* the scenario [250 km, 100 km] with range 300 km: one stop, before the 2nd leg
C1_Witness ==
    /\ pc = "done"
    /\ vehicle_range = F(300)
    /\ Len(basic_route) = 2
    /\ basic_route[1].distance = F(250)
    /\ basic_route[2].distance = F(100)
    /\ IsStopFlags(final_route) = << FALSE, TRUE, FALSE >>

\* C2: the total_distance of the response is the sum of the distances of the
\* legs the route computation returned.
C2_TotalDistance ==
    pc = "done" =>
        response[1].total_distance = SumField(basic_route, "distance")

C2_Witness ==
    /\ pc = "done"
    /\ response[1].total_distance > 0
    /\ \E p \in DOMAIN final_route : final_route[p].is_charging_stop

IsDriven(segment) == ~ segment.is_charging_stop

\* C3: the output of _insert_charging_stops is at least as long as the legs
\* visited, and without its charging-stop legs it is exactly those legs, in
\* order and unchanged.
C3_LegsPreserved ==
    /\ Len(final_route) >= Len(Visited)
    /\ pc \in { "insert", "calc", "done" } =>
         SelectSeq(final_route, IsDriven) = Visited
    /\ pc \in { "calc", "done" } => Visited = analyzed_segments

C3_Witness ==
    /\ pc = "calc"
    /\ calc_i = 1
    /\ Len(analyzed_segments) = MaxLegs
    /\ Len(final_route) > Len(analyzed_segments)

\* C4: with a positive range (the legs never have a negative distance or
\* duration), no leg of the inserter's output has a negative distance or
\* duration; every charging-stop leg has distance 0 and starts where the leg
\* right after it starts; while the inserter runs it has duration 0 and no
\* charging_time or charge_to_level.
C4_StopShape ==
    vehicle_range > 0 =>
        \A p \in DOMAIN final_route :
            LET s == final_route[p]
            IN  /\ s.distance >= 0
                /\ s.duration >= 0
                /\ s.is_charging_stop =>
                     /\ s.distance = 0
                     /\ p + 1 <= Len(final_route)
                     /\ s.start_location = final_route[p + 1].start_location
                     /\ pc = "insert" =>
                          /\ s.duration = 0
                          /\ s.charging_time = None
                          /\ s.charge_to_level = None

C4_Witness ==
    /\ pc = "insert"
    /\ vehicle_range > 0
    /\ ins_i > Len(analyzed_segments)
    /\ \E p \in DOMAIN final_route : final_route[p].is_charging_stop

\* a charging stop _calculate_charging_requirements has already passed
Processed(p) ==
    /\ final_route[p].is_charging_stop
    /\ p + 1 <= Len(final_route)
    /\ (pc = "done" \/ (pc = "calc" /\ p < calc_i))

\* C5: a processed charging stop followed by a leg of distance D >= 0 has
\* charge_to_level = min(100, D/300*100 + 20) and
\* charging_time = charge_to_level/20*15; the level lies in [0, 100], the time
\* is >= 0; D = 100 gives 160/3 = 53.33 percent and 40 minutes.
C5_Requirements ==
    \A p \in DOMAIN final_route :
        Processed(p) =>
            LET s == final_route[p]
                D == final_route[p + 1].distance
            IN  /\ D >= 0
                /\ s.charge_to_level # None
                /\ s.charging_time # None
                /\ 300 * s.charge_to_level[1]
                       = Min(300 * F(100), 100 * D + 300 * F(20))
                /\ 20 * s.charging_time[1] = 15 * s.charge_to_level[1]
                /\ s.charge_to_level[1] >= 0
                /\ s.charge_to_level[1] <= F(100)
                /\ s.charging_time[1] >= 0
                /\ D = F(100) =>
                     /\ 3 * s.charge_to_level[1] = F(160)
                     /\ s.charging_time[1] = F(40)

C5_Witness ==
    /\ pc = "done"
    /\ \E p \in DOMAIN final_route :
         /\ Processed(p)
         /\ final_route[p + 1].distance = F(100)
    /\ \E p \in DOMAIN final_route :
         /\ Processed(p)
         /\ final_route[p].charge_to_level = Some(F(100))

\* C6: the level computed for a charging stop is enough for the leg after it:
\* (charge_to_level / 100) * vehicle_range >= distance of that leg.  Stated
\* for the stops whose following leg is within the vehicle's full range.
C6_LevelSuffices ==
    pc = "done" =>
        \A p \in DOMAIN final_route :
            (/\ Processed(p)
             /\ vehicle_range > 0
             /\ final_route[p + 1].distance <= vehicle_range)
            => final_route[p].charge_to_level[1] * vehicle_range
                   >= 100 * Scale * final_route[p + 1].distance

\* C7: in the segments of the response, charging_time and charge_to_level are
\* both set exactly on the charging stops that are followed by a segment, and
\* set together; a charging stop in last position has neither and duration 0.
C7_RequirementsIffCompleted ==
    pc = "done" =>
        LET segs == response[1].route_segments
        IN  \A p \in DOMAIN segs :
              /\ (segs[p].charging_time # None /\ segs[p].charge_to_level # None)
                    <=> (segs[p].is_charging_stop /\ p < Len(segs))
              /\ (segs[p].charging_time # None) <=> (segs[p].charge_to_level # None)
              /\ (segs[p].is_charging_stop /\ p = Len(segs)) =>
                    /\ segs[p].charging_time = None
                    /\ segs[p].charge_to_level = None
                    /\ segs[p].duration = 0

C7_Witness ==
    /\ pc = "done"
    /\ \E p \in DOMAIN response[1].route_segments :
         /\ response[1].route_segments[p].is_charging_stop
         /\ response[1].route_segments[p].charging_time # None
         /\ response[1].route_segments[p].charge_to_level # None
         /\ ~ response[1].route_segments[p + 1].is_charging_stop
         /\ response[1].route_segments[p + 1].charging_time = None

\* the summary entries of the charging stops followed by a segment, from
\* position p on
RECURSIVE CompletedStopsFrom(_, _)
CompletedStopsFrom(segs, p) ==
    IF p > Len(segs) THEN << >>
    ELSE (IF segs[p].is_charging_stop /\ p < Len(segs)
          THEN << [ location        |-> segs[p].end_location,
                    charging_time   |-> segs[p].charging_time[1],
                    charge_to_level |-> segs[p].charge_to_level[1] ] >>
          ELSE << >>)
         \o CompletedStopsFrom(segs, p + 1)

\* C8: charging_stops of the response holds one entry per charging stop that
\* is followed by a segment, in segment order, with that segment's end
\* location (the station found near the start of the next leg), charging_time
\* and charge_to_level, and nothing else.
C8_Summary ==
    pc = "done" =>
        LET segs == response[1].route_segments
            stops == response[1].charging_stops
        IN  /\ stops = CompletedStopsFrom(segs, 1)
            /\ Len(stops) = Cardinality({ p \in DOMAIN segs :
                                            segs[p].is_charging_stop /\ p < Len(segs) })
            /\ \A q \in DOMAIN stops :
                 \E p \in DOMAIN segs :
                    /\ segs[p].is_charging_stop
                    /\ stops[q].location
                         = FindNearestChargingStation(segs[p + 1].start_location)

C8_Witness ==
    /\ pc = "done"
    /\ Len(response[1].charging_stops) >= 2
    /\ response[1].charging_stops[1].charge_to_level
          # response[1].charging_stops[2].charge_to_level

RECURSIVE SumChargingTime(_)
SumChargingTime(segs) ==
    IF segs = << >> THEN 0
    ELSE (IF segs[1].is_charging_stop /\ segs[1].charging_time # None
          THEN segs[1].charging_time[1] ELSE 0)
         + SumChargingTime(Tail(segs))

\* C9: a processed charging stop has duration = charging_time, and the
\* total_duration of the response is the sum of the durations of the legs the
\* route computation returned plus the charging times of the completed stops.
C9_TotalDuration ==
    /\ \A p \in DOMAIN final_route :
         Processed(p) => final_route[p].duration = final_route[p].charging_time[1]
    /\ pc = "done" =>
         response[1].total_duration
            = SumField(basic_route, "duration")
              + SumChargingTime(response[1].route_segments)

C9_Witness ==
    /\ pc = "done"
    /\ SumField(basic_route, "duration") > 0
    /\ SumChargingTime(response[1].route_segments) > 0
    /\ response[1].total_duration > SumField(basic_route, "duration")

\* C12: a visited leg longer than the full vehicle range is in the output
\* unchanged, right after exactly one charging stop: the segment before that
\* stop, if any, is not a charging stop, and no visited leg is missing or
\* split.  A single 500 km leg with a 300 km range gives [stop, leg] and a
\* total distance of 500 km.
C12_OverlongLeg ==
    /\ Len(SelectSeq(final_route, IsDriven)) = Len(Visited)
    /\ \A k \in 1..Len(Visited) :
         Visited[k].distance > vehicle_range =>
            LET p == NthDriven(IsStopFlags(final_route), k)
            IN  /\ p >= 2
                /\ final_route[p] = Visited[k]
                /\ final_route[p - 1].is_charging_stop
                /\ p >= 3 => ~ final_route[p - 2].is_charging_stop
    /\ (/\ pc = "done"
        /\ vehicle_range = F(300)
        /\ Len(basic_route) = 1
        /\ basic_route[1].distance = F(500))
       => /\ IsStopFlags(response[1].route_segments) = << TRUE, FALSE >>
          /\ response[1].route_segments[2] = basic_route[1]
          /\ response[1].total_distance = F(500)

C12_Witness ==
    /\ pc = "done"
    /\ vehicle_range = F(300)
    /\ Len(basic_route) = 1
    /\ basic_route[1].distance = F(500)
    /\ Len(response[1].route_segments) = 2
    /\ response[1].route_segments[1].is_charging_stop

\* C13: no charging-stop segment carries a station made up at the
\* coordinates of the location the lookup was asked about (the start of the
\* stop); a lookup without a station is an error, not a segment.  Stated for
\* the requests with a positive vehicle range.
C13_NoFabricatedStation ==
    \A p \in DOMAIN final_route :
        (vehicle_range > 0 /\ final_route[p].is_charging_stop) =>
            ~ (/\ final_route[p].end_location.latitude
                     = final_route[p].start_location.latitude
               /\ final_route[p].end_location.longitude
                     = final_route[p].start_location.longitude)

\* C14: calculate_route returns a RouteResponse only for a positive vehicle
\* range and a non-empty leg sequence; otherwise the outcome is an error.
C14_InvalidInputRejected ==
    response # None => (vehicle_range > 0 /\ basic_route # << >>)

\* C15: no step of a pipeline stage changes the sequence the stage was given:
\* _analyze_range leaves basic_route, _insert_charging_stops leaves
\* analyzed_segments and _calculate_charging_requirements leaves final_route
\* as it was when the stage was called.  Stated for the requests with a
\* positive vehicle range.
C15_StagesLeaveInputUnchanged ==
    [][ vehicle_range > 0 =>
          /\ pc = "analyze" => basic_route' = basic_route
          /\ pc = "insert" => analyzed_segments' = analyzed_segments
          /\ pc = "calc" => final_route' = final_route ]_vars

\* the annotations the rule prescribes: distance <= remaining, with remaining
\* decreased after a sufficient leg and left alone after an insufficient one
RECURSIVE SufficientFlags(_, _)
SufficientFlags(legs, remaining) ==
    IF legs = << >> THEN << >>
    ELSE LET d == legs[1].distance
         IN  IF d <= remaining
             THEN << TRUE >> \o SufficientFlags(Tail(legs), remaining - d)
             ELSE << FALSE >> \o SufficientFlags(Tail(legs), remaining)

\* C16: the sequence _analyze_range builds holds the legs it was given, in
\* order, and every one of them carries the annotation range_sufficient with
\* the value the rule prescribes.  Stated for the requests with a positive
\* vehicle range.
C16_AnnotationObservable ==
    /\ Len(analyzed_segments) = an_i - 1
    /\ \A k \in DOMAIN analyzed_segments : vehicle_range > 0 =>
         /\ [ f \in RouteSegmentFields |-> analyzed_segments[k][f] ] = basic_route[k]
         /\ "range_sufficient" \in DOMAIN analyzed_segments[k]
         /\ analyzed_segments[k]["range_sufficient"]
               = SufficientFlags(basic_route, vehicle_range)[k]

\* every leg of the request has a distance in [0, vehicle_range]
AllLegsWithinRange ==
    \A k \in DOMAIN basic_route :
        /\ basic_route[k].distance >= 0
        /\ basic_route[k].distance <= vehicle_range

\* driven is the distance driven since the route start or the last charging
\* stop: no stretch between charging stops exceeds the range
RECURSIVE StretchesWithin(_, _, _)
StretchesWithin(segs, driven, range) ==
    IF segs = << >> THEN TRUE
    ELSE IF segs[1].is_charging_stop
         THEN StretchesWithin(Tail(segs), 0, range)
         ELSE /\ driven + segs[1].distance <= range
              /\ StretchesWithin(Tail(segs), driven + segs[1].distance, range)

\* C18: when every leg has a distance in [0, R], the remaining_range of
\* _insert_charging_stops is within [0, R] after every step, and in its
\* output the distance driven from the route start to the first charging
\* stop, between two consecutive stops and after the last stop never exceeds R.
C18_RangeFeasible ==
    (pc \in { "insert", "calc", "done" } /\ AllLegsWithinRange) =>
        /\ remaining_range >= 0
        /\ remaining_range <= vehicle_range
        /\ StretchesWithin(final_route, 0, vehicle_range)

\* three legs in range, a stop before the second one, and the third driven on
\* the same charge down to an empty battery
C18_Witness ==
    /\ pc = "done"
    /\ vehicle_range = F(300)
    /\ AllLegsWithinRange
    /\ IsStopFlags(final_route) = << FALSE, TRUE, FALSE, FALSE >>
    /\ remaining_range = 0

Max(a, b) == IF a >= b THEN a ELSE b

\* The state of charge along a route.  avail is the available range times
\* 100 * Scale, so that (charge_to_level / 100) * range is the whole number
\* charge_to_level * range: a charging stop raises avail to at least that, a
\* driven leg takes its distance away and must not leave less than nothing.
RECURSIVE ChargeNeverNegative(_, _, _)
ChargeNeverNegative(segs, avail, range) ==
    IF segs = << >> THEN TRUE
    ELSE IF segs[1].is_charging_stop
         THEN ChargeNeverNegative(
                  Tail(segs),
                  IF segs[1].charge_to_level = None THEN avail
                  ELSE Max(avail, segs[1].charge_to_level[1] * range),
                  range)
         ELSE /\ avail - segs[1].distance * 100 * Scale >= 0
              /\ ChargeNeverNegative(Tail(segs),
                                     avail - segs[1].distance * 100 * Scale,
                                     range)

\* C19: when every leg has a distance <= R, the route of the response can be
\* driven with the charge its stops provide: starting with R km and charging
\* at each stop to max(current, charge_to_level/100 * R), the available range
\* never becomes negative.  Stated for the requests with R = 300 km, the range
\* the level computation assumes, where each level does cover the leg right
\* after its stop.
C19_ChargeSuffices ==
    (pc = "done" /\ vehicle_range = F(300) /\ AllLegsWithinRange) =>
        ChargeNeverNegative(response[1].route_segments,
                            vehicle_range * 100 * Scale, vehicle_range)

=============================================================================
